---- MODULE Spec2Model ----
(***************************************************************************)
(* Model of AdvancedCleaningAgent (src/agents/cleaning_agent.py): the      *)
(* agent's CleaningState, its constructor, the battery guard check_battery *)
(* and the sensor refresh update_sensors, driven by an IoT collaborator    *)
(* whose accessors may return any reading or raise.                        *)
(*                                                                         *)
(* battery_level is a Python float; the model uses whole percents, which   *)
(* is enough to place readings on both sides of, and exactly on, the       *)
(* threshold and the ends of the nominal range.                            *)
(***************************************************************************)
EXTENDS Integers, Sequences, FiniteSets, TLC

VARIABLES state, last, lowFailures, refreshed

vars == <<state, last, lowFailures, refreshed>>

(* ---------------------------------------------------------------------- *)
(* Bounds of the model                                                     *)
(* ---------------------------------------------------------------------- *)

\* readings are taken within Margin of the threshold and of both range ends
Margin == 2

\* the count of low-battery failures saturates here
MaxLowFailures == 2

(* ---------------------------------------------------------------------- *)
(* Program constants                                                       *)
(* ---------------------------------------------------------------------- *)

\* CleaningState.battery_level default
FullBattery == 100

\* the literal of the comparison in check_battery
LowBatteryThreshold == 20

\* domain/models.py: the Room enumeration (by value)
Room == {"living_room", "kitchen", "bedroom", "bathroom"}

\* room identifiers a collaborator can return that are not Room members
UnknownRooms == {"garage"}

(* ---------------------------------------------------------------------- *)
(* Exceptions                                                              *)
(* ---------------------------------------------------------------------- *)

NoException == [type |-> "None", msg |-> ""]

\* agents/cleaning_agent.py LowBatteryError, as raised by check_battery
LowBatteryError(message) == [type |-> "LowBatteryError", msg |-> message]

\* domain/exceptions.py SensorError
SensorError == [type |-> "SensorError", msg |-> ""]

\* any other exception the duck-typed collaborator may raise
TimeoutError == [type |-> "TimeoutError", msg |-> ""]

IoTExceptions == {SensorError, TimeoutError}

(* ---------------------------------------------------------------------- *)
(* The IoT collaborator: what one accessor call can produce                *)
(* ---------------------------------------------------------------------- *)

Returns(v) == [ok |-> TRUE, val |-> v]
Raises(e) == [ok |-> FALSE, exc |-> e]

BatteryReadings ==
    ((0 - Margin) .. Margin)
    \cup ((LowBatteryThreshold - Margin) .. (LowBatteryThreshold + Margin))
    \cup ((FullBattery - Margin) .. (FullBattery + Margin))

RoomReadings == Room \cup UnknownRooms

get_battery_level == {Returns(b) : b \in BatteryReadings}
                         \cup {Raises(e) : e \in IoTExceptions}

get_current_room == {Returns(r) : r \in RoomReadings}
                        \cup {Raises(e) : e \in IoTExceptions}

Call(fn, res) == [fn |-> fn, ret |-> res]

(* ---------------------------------------------------------------------- *)
(* CleaningState                                                           *)
(* ---------------------------------------------------------------------- *)

\* variant: the battery default is an empty battery
CleaningState_drained ==
    [battery_level |-> 0,
     current_room  |-> "living_room",
     cleaning_path |-> <<>>]

\* CleaningState(): the field defaults
CleaningState ==
    [battery_level |-> FullBattery,
     current_room  |-> "living_room",
     cleaning_path |-> <<>>]

\* attribute assignment on the pydantic model: the model declares no
\* validate_assignment, so the value is stored as given
SetAttr(st, field, value) == [st EXCEPT ![field] = value]

\* the outcome of one method call: the state it leaves, the collaborator
\* calls it made in order, and the exception it raised (NoException if none)
Outcome(st, calls, raised) == [state |-> st, calls |-> calls, raised |-> raised]

(* ---------------------------------------------------------------------- *)
(* AdvancedCleaningAgent.check_battery                                     *)
(* ---------------------------------------------------------------------- *)

\* variant: the comparison is <= instead of <
check_battery_inclusive(st) ==
    IF st.battery_level <= LowBatteryThreshold
    THEN Outcome(st, <<>>, LowBatteryError("Returning to dock"))
    ELSE Outcome(st, <<>>, NoException)

\* variant: the guard itself sends the robot home through the collaborator
check_battery_docking(st) ==
    IF st.battery_level < LowBatteryThreshold
    THEN Outcome(SetAttr(st, "current_room", "living_room"),
                 <<Call("return_to_dock", Returns("living_room"))>>,
                 LowBatteryError("Returning to dock"))
    ELSE Outcome(st, <<>>, NoException)

\* variant: once the guard has failed it keeps failing
check_battery_latched(st) ==
    IF st.battery_level < LowBatteryThreshold \/ lowFailures > 0
    THEN Outcome(st, <<>>, LowBatteryError("Returning to dock"))
    ELSE Outcome(st, <<>>, NoException)

check_battery(st) ==
    IF st.battery_level < LowBatteryThreshold
    THEN Outcome(st, <<>>, LowBatteryError("Returning to dock"))
    ELSE Outcome(st, <<>>, NoException)

(* ---------------------------------------------------------------------- *)
(* AdvancedCleaningAgent.update_sensors                                    *)
(* batRes and roomRes are what the two accessors produce if called         *)
(* ---------------------------------------------------------------------- *)

\* variant: the room reading is fetched but never stored
update_sensors_no_room(st, batRes, roomRes) ==
    LET c1 == Call("get_battery_level", batRes)
        c2 == Call("get_current_room", roomRes)
    IN  IF ~batRes.ok
        THEN Outcome(st, <<c1>>, batRes.exc)
        ELSE LET s1 == SetAttr(st, "battery_level", batRes.val)
             IN  IF ~roomRes.ok
                 THEN Outcome(s1, <<c1, c2>>, roomRes.exc)
                 ELSE Outcome(s1, <<c1, c2>>, NoException)

\* variant: a failed battery read does not end the refresh; the room is
\* still read and stored before the failure is reported
update_sensors_continue(st, batRes, roomRes) ==
    LET c1 == Call("get_battery_level", batRes)
        c2 == Call("get_current_room", roomRes)
        s1 == IF batRes.ok THEN SetAttr(st, "battery_level", batRes.val) ELSE st
    IN  IF ~roomRes.ok
        THEN Outcome(s1, <<c1, c2>>, roomRes.exc)
        ELSE Outcome(SetAttr(s1, "current_room", roomRes.val), <<c1, c2>>,
                     IF batRes.ok THEN NoException ELSE batRes.exc)

\* variant: a successful refresh appends the new room to the visit history
update_sensors_tracking(st, batRes, roomRes) ==
    LET c1 == Call("get_battery_level", batRes)
        c2 == Call("get_current_room", roomRes)
    IN  IF ~batRes.ok
        THEN Outcome(st, <<c1>>, batRes.exc)
        ELSE LET s1 == SetAttr(st, "battery_level", batRes.val)
             IN  IF ~roomRes.ok
                 THEN Outcome(s1, <<c1, c2>>, roomRes.exc)
                 ELSE Outcome(SetAttr(SetAttr(s1, "current_room", roomRes.val),
                                      "cleaning_path",
                                      Append(s1.cleaning_path, roomRes.val)),
                              <<c1, c2>>, NoException)

update_sensors(st, batRes, roomRes) ==
    LET c1 == Call("get_battery_level", batRes)
        c2 == Call("get_current_room", roomRes)
    IN  IF ~batRes.ok
        THEN Outcome(st, <<c1>>, batRes.exc)
        ELSE LET s1 == SetAttr(st, "battery_level", batRes.val)
             IN  IF ~roomRes.ok
                 THEN Outcome(s1, <<c1, c2>>, roomRes.exc)
                 ELSE Outcome(SetAttr(s1, "current_room", roomRes.val),
                              <<c1, c2>>, NoException)

(* ---------------------------------------------------------------------- *)
(* The state machine                                                       *)
(* ---------------------------------------------------------------------- *)

Record(op, out) == [op |-> op, calls |-> out.calls, raised |-> out.raised]

Saturate(n) == IF n < MaxLowFailures THEN n + 1 ELSE n

\* AdvancedCleaningAgent.__init__
Init ==
    /\ state = CleaningState
    /\ last = [op |-> "__init__", calls |-> <<>>, raised |-> NoException]
    /\ lowFailures = 0
    /\ refreshed = FALSE

CheckBattery ==
    LET out == check_battery(state)
    IN  /\ state' = out.state
        /\ last' = Record("check_battery", out)
        /\ lowFailures' = IF out.raised.type = "LowBatteryError"
                          THEN Saturate(lowFailures) ELSE lowFailures
        /\ UNCHANGED refreshed

UpdateSensors ==
    \E batRes \in get_battery_level, roomRes \in get_current_room :
        LET out == update_sensors(state, batRes, roomRes)
        IN  /\ state' = out.state
            /\ last' = Record("update_sensors", out)
            /\ refreshed' = TRUE
            /\ UNCHANGED lowFailures

Next == CheckBattery \/ UpdateSensors

Spec == Init /\ [][Next]_vars

(* ---------------------------------------------------------------------- *)
(* Properties                                                              *)
(* ---------------------------------------------------------------------- *)

IsLow(exc) == exc.type = "LowBatteryError"

\* C1: a battery check on a state holding battery_level b raises
\* LowBatteryError iff b < 20 and returns normally iff b >= 20; b = 20
\* exactly returns normally.
C1_GuardThreshold ==
    [][last'.op = "check_battery" =>
          /\ IsLow(last'.raised) <=> state.battery_level < 20
          /\ last'.raised = NoException <=> state.battery_level >= 20
          /\ state.battery_level = 20 => last'.raised = NoException]_vars

C1_Witness ==
    /\ last.op = "check_battery"
    /\ state.battery_level = 20
    /\ last.raised = NoException
    /\ lowFailures > 0

\* C2 (as claimed): a sensor refresh that fails leaves battery_level,
\* current_room and cleaning_path as they were before the call.
C2_FailedRefreshUntouched ==
    [][(last'.op = "update_sensors" /\ last'.raised # NoException) =>
          /\ state'.battery_level = state.battery_level
          /\ state'.current_room = state.current_room
          /\ state'.cleaning_path = state.cleaning_path]_vars

\* C3: a sensor refresh in which both accessors return leaves battery_level
\* equal to what get_battery_level returned, current_room equal to what
\* get_current_room returned, and cleaning_path as it was.
C3_RefreshStoresReadings ==
    [][(last'.op = "update_sensors" /\ last'.raised = NoException) =>
          /\ Len(last'.calls) = 2
          /\ last'.calls[1].fn = "get_battery_level"
          /\ last'.calls[2].fn = "get_current_room"
          /\ last'.calls[1].ret.ok /\ last'.calls[2].ret.ok
          /\ state'.battery_level = last'.calls[1].ret.val
          /\ state'.current_room = last'.calls[2].ret.val
          /\ state'.cleaning_path = state.cleaning_path]_vars

C3_Witness ==
    /\ last.op = "update_sensors"
    /\ last.raised = NoException
    /\ state.battery_level = 21
    /\ state.current_room = "kitchen"

\* C4: a battery check, whether it returns or raises, changes no field of
\* the state and calls nothing on the IoT collaborator.
C4_GuardIsPure ==
    [][last'.op = "check_battery" =>
          /\ state' = state
          /\ last'.calls = <<>>]_vars

C4_Witness ==
    /\ last.op = "check_battery"
    /\ IsLow(last.raised)
    /\ state.current_room = "bedroom"

\* C5 (as claimed): current_room is always a member of the Room enumeration.
C5_RoomAlwaysValid == state.current_room \in Room

\* C6: until the first sensor refresh the state is battery_level = 100,
\* current_room = living_room, cleaning_path = [], and a battery check on
\* it returns normally.
C6_FreshState ==
    ~refreshed =>
        /\ state.battery_level = 100
        /\ state.current_room = "living_room"
        /\ state.cleaning_path = <<>>
        /\ last.op = "check_battery" => last.raised = NoException
        /\ lowFailures = 0

C6_Witness ==
    /\ ~refreshed
    /\ last.op = "check_battery"
    /\ last.raised = NoException

\* C7 (as claimed): battery_level always lies in [0, 100].
C7_BatteryInRange ==
    state.battery_level >= 0 /\ state.battery_level <= 100

\* C8: one sensor refresh calls get_battery_level first and at most once,
\* then get_current_room at most once; the first accessor failure is the
\* exception the refresh raises, and nothing is called after it.
C8_CallOrderNoRetry ==
    last.op = "update_sensors" =>
        LET calls == last.calls
            n == Len(calls)
        IN  /\ n \in {1, 2}
            /\ calls[1].fn = "get_battery_level"
            /\ n = 2 => calls[2].fn = "get_current_room"
            /\ ~calls[1].ret.ok => (n = 1 /\ last.raised = calls[1].ret.exc)
            /\ (n = 2 /\ ~calls[2].ret.ok) => last.raised = calls[2].ret.exc
            /\ last.raised # NoException => ~calls[n].ret.ok

C8_Witness ==
    /\ last.op = "update_sensors"
    /\ Len(last.calls) = 1
    /\ last.raised = SensorError

\* C9: cleaning_path is the empty sequence in every reachable state.
C9_PathStaysEmpty == state.cleaning_path = <<>>

C9_Witness ==
    /\ last.op = "update_sensors"
    /\ last.raised = NoException
    /\ state.current_room = "bathroom"
    /\ lowFailures > 0
    /\ state.cleaning_path = <<>>

\* C10: a low-battery failure is not latched: after any number of
\* LowBatteryError failures a battery check on a state with
\* battery_level >= 20 returns normally, and after any outcome both
\* operations can still be invoked.
C10_NotLatched ==
    [][/\ (last'.op = "check_battery" /\ lowFailures > 0
              /\ state.battery_level >= 20) =>
                  (last'.raised = NoException /\ lowFailures' = lowFailures)
       /\ ENABLED CheckBattery
       /\ ENABLED UpdateSensors]_vars

C10_Witness ==
    /\ last.op = "check_battery"
    /\ last.raised = NoException
    /\ lowFailures = MaxLowFailures
    /\ state.battery_level >= 20

====
